---- MODULE Spec2Model ----
(***************************************************************************)
(* The four FARTNODE on-chain program stubs (points, quests, escrow,       *)
(* registry).  Each declares a program id with declare_id! and exposes one *)
(* instruction, initialize, whose body logs a fixed string with msg! and   *)
(* returns Ok(()).                                                         *)
(*                                                                         *)
(* Spec   : the runtime dispatches up to MaxCalls invocations and runs the *)
(*          handler bodies statement by statement, interleaved.            *)
(* SpecId : declare_id! decodes each declared identifier (base58) into a   *)
(*          32-byte program address, one character per step.               *)
(* Strings are sequences of one-character strings.                         *)
(*                                                                         *)
(* Spec describes the handler bodies as they are written, for all four     *)
(* units, whether or not declare_id! accepts the unit's identifier; the    *)
(* identifiers themselves are examined in SpecId.  An instruction is       *)
(* addressed by identifier, and the runtime may enter any program declared *)
(* under that identifier, its built-in System Program included.            *)
(***************************************************************************)
EXTENDS Naturals, Integers, Sequences, FiniteSets, Bags, TLC

\* ---------------------------------------------------------------- bounds
MaxCalls == 3

Calls == 1..MaxCalls

\* ------------------------------------------------------ program constants
Units == {"points", "quests", "escrow", "registry"}

\* ID with the quests literal pasted from escrow
IDDup ==
  [u \in Units |->
     CASE u = "points"   -> <<"1","1","1","1","1","1","1","1","1","1","1","1","1","1","1","1",
          "1","1","1","1","1","1","1","1","1","1","1","1","1","1","1","1">>
       [] u = "quests"   -> <<"3","3","3","3","3","3","3","3","3","3","3","3","3","3","3","3",
          "3","3","3","3","3","3","3","3","3","3","3","3","3","3","3","3">>
       [] u = "escrow"   -> <<"3","3","3","3","3","3","3","3","3","3","3","3","3","3","3","3",
          "3","3","3","3","3","3","3","3","3","3","3","3","3","3","3","3">>
       [] u = "registry" -> <<"4","4","4","4","4","4","4","4","4","4","4","4","4","4","4","4",
          "4","4","4","4","4","4","4","4","4","4","4","4","4","4","4","4">>]

\* ID with the last character of the escrow literal mistyped
IDTypo ==
  [u \in Units |->
     CASE u = "points"   -> <<"1","1","1","1","1","1","1","1","1","1","1","1","1","1","1","1",
          "1","1","1","1","1","1","1","1","1","1","1","1","1","1","1","1">>
       [] u = "quests"   -> <<"2","2","2","2","2","2","2","2","2","2","2","2","2","2","2","2",
          "2","2","2","2","2","2","2","2","2","2","2","2","2","2","2","2">>
       [] u = "escrow"   -> <<"3","3","3","3","3","3","3","3","3","3","3","3","3","3","3","3",
          "3","3","3","3","3","3","3","3","3","3","3","3","3","3","3","4">>
       [] u = "registry" -> <<"4","4","4","4","4","4","4","4","4","4","4","4","4","4","4","4",
          "4","4","4","4","4","4","4","4","4","4","4","4","4","4","4","4">>]

\* declare_id!("...") of each unit
ID ==
  [u \in Units |->
     CASE u = "points"   -> <<"1","1","1","1","1","1","1","1","1","1","1","1","1","1","1","1",
          "1","1","1","1","1","1","1","1","1","1","1","1","1","1","1","1">>
       [] u = "quests"   -> <<"2","2","2","2","2","2","2","2","2","2","2","2","2","2","2","2",
          "2","2","2","2","2","2","2","2","2","2","2","2","2","2","2","2">>
       [] u = "escrow"   -> <<"3","3","3","3","3","3","3","3","3","3","3","3","3","3","3","3",
          "3","3","3","3","3","3","3","3","3","3","3","3","3","3","3","3">>
       [] u = "registry" -> <<"4","4","4","4","4","4","4","4","4","4","4","4","4","4","4","4",
          "4","4","4","4","4","4","4","4","4","4","4","4","4","4","4","4">>]

\* the hosting runtime's built-in System Program, in scope through the prelude
SystemProgramId ==
  <<"1","1","1","1","1","1","1","1","1","1","1","1","1","1","1","1",
          "1","1","1","1","1","1","1","1","1","1","1","1","1","1","1","1">>

Programs == Units \cup {"system"}

ProgramId(p) == IF p = "system" THEN SystemProgramId ELSE ID[p]

\* Message with the quests literal left as copied from points
MessageCopied(u) ==
  CASE u = "points"   -> <<"F","A","R","T","N","O","D","E"," ","p","o","i","n","t","s"," ",
          "p","r","o","g","r","a","m"," ","s","t","u","b">>
    [] u = "quests"   -> <<"F","A","R","T","N","O","D","E"," ","p","o","i","n","t","s"," ",
          "p","r","o","g","r","a","m"," ","s","t","u","b">>
    [] u = "escrow"   -> <<"F","A","R","T","N","O","D","E"," ","e","s","c","r","o","w"," ",
          "p","r","o","g","r","a","m"," ","s","t","u","b">>
    [] u = "registry" -> <<"F","A","R","T","N","O","D","E"," ","r","e","g","i","s","t","r",
          "y"," ","p","r","o","g","r","a","m"," ","s","t","u","b">>

\* the string literal passed to msg! by each unit's initialize
Message(u) ==
  CASE u = "points"   -> <<"F","A","R","T","N","O","D","E"," ","p","o","i","n","t","s"," ",
          "p","r","o","g","r","a","m"," ","s","t","u","b">>
    [] u = "quests"   -> <<"F","A","R","T","N","O","D","E"," ","q","u","e","s","t","s"," ",
          "p","r","o","g","r","a","m"," ","s","t","u","b">>
    [] u = "escrow"   -> <<"F","A","R","T","N","O","D","E"," ","e","s","c","r","o","w"," ",
          "p","r","o","g","r","a","m"," ","s","t","u","b">>
    [] u = "registry" -> <<"F","A","R","T","N","O","D","E"," ","r","e","g","i","s","t","r",
          "y"," ","p","r","o","g","r","a","m"," ","s","t","u","b">>

\* Result<()> values
Ok(v) == [tag |-> "Ok", value |-> v]
None == [tag |-> "None", value |-> <<>>]

\* InitializeResult with an error path in one unit
InitializeResultErr(u) ==
  IF u = "registry" THEN [tag |-> "Err", value |-> "Custom"] ELSE Ok(<<>>)

\* what the body of initialize returns
InitializeResult(u) == Ok(<<>>)

\* Emit that writes the record twice
EmitTwice(l, c, text) ==
  Append(Append(l, [call |-> c, text |-> text]), [call |-> c, text |-> text])

\* msg!(text) by invocation c: one record appended to the program log
Emit(l, c, text) == Append(l, [call |-> c, text |-> text])

\* persisted account state the runtime holds; no unit declares any
AccountKeys == {"acct"}
AccountData == 0..1

\* ------------------------------------------------------- base58 decoding
PUBKEY_BYTES == 32

Alphabet ==
  <<"1","2","3","4","5","6","7","8","9","A","B","C","D","E","F","G",
  "H","J","K","L","M","N","P","Q","R","S","T","U","V","W","X","Y",
  "Z","a","b","c","d","e","f","g","h","i","j","k","m","n","o","p",
  "q","r","s","t","u","v","w","x","y","z">>

\* index of a character in the alphabet, or 255 (0xFF) when it is not in it
DecodeChar(ch) ==
  IF \E i \in 1..Len(Alphabet) : Alphabet[i] = ch
  THEN (CHOOSE i \in 1..Len(Alphabet) : Alphabet[i] = ch) - 1
  ELSE 255

\* for byte in &mut output[..index] { val += byte * 58; byte = val & 0xFF; val >>= 8 }
\* returns <<bytes, carry>>; bytes are little-endian
RECURSIVE MulAdd(_, _, _)
MulAdd(bytes, i, val) ==
  IF i > Len(bytes) THEN <<bytes, val>>
  ELSE LET v == val + bytes[i] * 58
       IN  MulAdd([bytes EXCEPT ![i] = v % 256], i + 1, v \div 256)

\* while val > 0 { output[index] = val & 0xFF; index += 1; val >>= 8 }
RECURSIVE PushCarry(_, _)
PushCarry(bytes, val) ==
  IF val = 0 THEN bytes
  ELSE PushCarry(Append(bytes, val % 256), val \div 256)

\* input.iter().take_while(|c| c == '1').count()
RECURSIVE LeadingZeros(_, _)
LeadingZeros(s, i) ==
  IF i > Len(s) \/ s[i] # Alphabet[1] THEN 0
  ELSE 1 + LeadingZeros(s, i + 1)

Zeros(n) == [i \in 1..n |-> 0]

Reverse(s) == [i \in 1..Len(s) |-> s[Len(s) + 1 - i]]

\* ------------------------------------------------------------------ state
VARIABLES
  pc,        \* pc[c]: "idle", "body" (before msg!), "logged" (before Ok(())), "done", "foreign"
  addr,      \* addr[c]: the program id the invocation is addressed to
  target,    \* target[c]: the program whose code the runtime entered
  result,    \* result[c]: what the invocation returned
  log,       \* the diagnostic log: records [call, text] in emission order
  accounts,  \* persisted account data
  unit,      \* declare_id!: the unit whose identifier is being decoded
  token,     \* declare_id!: the identifier literal
  pos,       \* declare_id!: characters consumed
  out,       \* declare_id!: bytes produced (little-endian until finished)
  status     \* declare_id!: "idle", "decoding", "Ok", "InvalidCharacter", "WrongSize"

callVars == <<pc, addr, target, result, log, accounts>>
idVars == <<unit, token, pos, out, status>>
vars == <<pc, addr, target, result, log, accounts, unit, token, pos, out, status>>

NoCalls ==
  /\ pc = [c \in Calls |-> "idle"]
  /\ addr = [c \in Calls |-> <<>>]
  /\ target = [c \in Calls |-> "none"]
  /\ result = [c \in Calls |-> None]
  /\ log = <<>>
  /\ accounts \in [AccountKeys -> AccountData]

NoDecode ==
  /\ unit = "none"
  /\ token = <<>>
  /\ pos = 0
  /\ out = <<>>
  /\ status = "idle"

\* ------------------------------------------------------------ invocations
Init == NoCalls /\ NoDecode

\* the runtime receives an instruction addressed to id and enters a program
\* declared under that id; a unit's entry starts the body of initialize
Invoke(c, id, p) ==
  /\ pc[c] = "idle"
  /\ ProgramId(p) = id
  /\ addr' = [addr EXCEPT ![c] = id]
  /\ target' = [target EXCEPT ![c] = p]
  /\ pc' = [pc EXCEPT ![c] = IF p \in Units THEN "body" ELSE "foreign"]
  /\ UNCHANGED <<result, log, accounts>>
  /\ UNCHANGED idVars

\* Msg that takes a lock on the log: waits while another invocation is
\* between its msg! and its return
MsgLocked(c) ==
  /\ pc[c] = "body"
  /\ \A d \in Calls \ {c} : pc[d] # "logged"
  /\ log' = Emit(log, c, Message(target[c]))
  /\ pc' = [pc EXCEPT ![c] = "logged"]
  /\ UNCHANGED <<addr, target, result, accounts>>
  /\ UNCHANGED idVars

\* Msg that also makes a cross-program invocation into the registry unit
MsgCpi(c) ==
  /\ pc[c] = "body"
  /\ log' = Emit(log, c, Message(target[c]))
  /\ LET idle == {d \in Calls : pc[d] = "idle"}
     IN  IF idle = {} \/ target[c] = "registry"
         THEN /\ pc' = [pc EXCEPT ![c] = "logged"]
              /\ UNCHANGED <<addr, target>>
         ELSE LET d == CHOOSE x \in idle : TRUE
              IN  /\ pc' = [pc EXCEPT ![c] = "logged", ![d] = "body"]
                  /\ addr' = [addr EXCEPT ![d] = ID["registry"]]
                  /\ target' = [target EXCEPT ![d] = "registry"]
  /\ UNCHANGED <<result, accounts>>
  /\ UNCHANGED idVars

\* msg!("FARTNODE <unit> program stub");
Msg(c) ==
  /\ pc[c] = "body"
  /\ log' = Emit(log, c, Message(target[c]))
  /\ pc' = [pc EXCEPT ![c] = "logged"]
  /\ UNCHANGED <<addr, target, result, accounts>>
  /\ UNCHANGED idVars

\* Return that fails when the unit has already been initialized
ReturnOnce(c) ==
  /\ pc[c] = "logged"
  /\ result' = [result EXCEPT ![c] =
                  IF \E d \in Calls \ {c} : pc[d] = "done" /\ target[d] = target[c]
                  THEN [tag |-> "Err", value |-> "AlreadyInitialized"]
                  ELSE InitializeResult(target[c])]
  /\ pc' = [pc EXCEPT ![c] = "done"]
  /\ UNCHANGED <<addr, target, log, accounts>>
  /\ UNCHANGED idVars

\* Ok(())
Return(c) ==
  /\ pc[c] = "logged"
  /\ result' = [result EXCEPT ![c] = InitializeResult(target[c])]
  /\ pc' = [pc EXCEPT ![c] = "done"]
  /\ UNCHANGED <<addr, target, log, accounts>>
  /\ UNCHANGED idVars

Next ==
  \E c \in Calls :
    \/ \E u \in Units, p \in Programs : Invoke(c, ID[u], p)
    \/ Msg(c)
    \/ Return(c)

Spec == Init /\ [][Next]_vars

\* ------------------------------------------------------------ declare_id!
InitId ==
  /\ NoCalls
  /\ unit \in Units
  /\ token = ID[unit]
  /\ pos = 0
  /\ out = <<>>
  /\ status = "decoding"

\* one iteration of the decoding loop over the identifier's characters
DecodeStep ==
  /\ status = "decoding"
  /\ pos < Len(token)
  /\ LET val == DecodeChar(token[pos + 1])
         r == MulAdd(out, 1, val)
     IN  IF val = 255
         THEN /\ status' = "InvalidCharacter"
              /\ UNCHANGED <<out, pos>>
         ELSE /\ out' = PushCarry(r[1], r[2])
              /\ pos' = pos + 1
              /\ UNCHANGED status
  /\ UNCHANGED <<unit, token>>
  /\ UNCHANGED callVars

\* after the loop: one zero byte per leading '1', reverse to big-endian, and
\* the result must be a PUBKEY_BYTES-long array
DecodeFinish ==
  /\ status = "decoding"
  /\ pos = Len(token)
  /\ LET bytes == Reverse(out \o Zeros(LeadingZeros(token, 1)))
     IN  /\ out' = bytes
         /\ status' = IF Len(bytes) = PUBKEY_BYTES THEN "Ok" ELSE "WrongSize"
  /\ UNCHANGED <<unit, token, pos>>
  /\ UNCHANGED callVars

NextId == DecodeStep \/ DecodeFinish

SpecId == InitId /\ [][NextId]_vars

\* ------------------------------------------------------------- properties
RECURSIVE Contains(_, _, _)
Contains(hay, needle, i) ==
  IF i + Len(needle) - 1 > Len(hay) THEN FALSE
  ELSE \/ SubSeq(hay, i, i + Len(needle) - 1) = needle
       \/ Contains(hay, needle, i + 1)

Name ==
  [u \in Units |->
     CASE u = "points"   -> <<"p","o","i","n","t","s">>
       [] u = "quests"   -> <<"q","u","e","s","t","s">>
       [] u = "escrow"   -> <<"e","s","c","r","o","w">>
       [] u = "registry" -> <<"r","e","g","i","s","t","r","y">>]

Stub == <<"s","t","u","b">>

Digit ==
  [u \in Units |->
     CASE u = "points" -> "1" [] u = "quests" -> "2"
       [] u = "escrow" -> "3" [] u = "registry" -> "4"]

RecordsOf(l, c) == {i \in DOMAIN l : l[i].call = c}

CallsTo(u) == {c \in Calls : target[c] = u}

InBody(c) == target[c] \in Units /\ pc[c] \in {"body", "logged"}

\* the number of times each element occurs in a sequence
BagOf(l) == [x \in {l[i] : i \in DOMAIN l} |-> Cardinality({i \in DOMAIN l : l[i] = x})]

\* the log of running the invocations of cs one after the other, lowest first
RECURSIVE SeqLog(_, _)
SeqLog(cs, u) ==
  IF cs = {} THEN <<>>
  ELSE LET c == CHOOSE x \in cs : \A y \in cs : x >= y
       IN  Append(SeqLog(cs \ {c}, u), [call |-> c, text |-> u[c]])

\* C1: every invocation of a unit that reaches the body of initialize
\* returns success; no invocation ever holds an error outcome.
C1_AlwaysOk ==
  \A c \in Calls :
    /\ result[c].tag \in {"None", "Ok"}
    /\ (target[c] \in Units /\ pc[c] = "done") => result[c].tag = "Ok"

C1_Witness ==
  \E c \in Calls : pc[c] = "done" /\ target[c] = "registry" /\ result[c].tag = "Ok"

\* C2: one invocation of initialize appends exactly one record to the log and
\* changes nothing else: account data stays as it was, the other records of
\* the log stay as they were, and the value returned carries no payload.
C2_OneRecord ==
  /\ [](\A c \in Calls :
          /\ pc[c] = "body" => Cardinality(RecordsOf(log, c)) = 0
          /\ pc[c] \in {"logged", "done"} => Cardinality(RecordsOf(log, c)) = 1
          /\ pc[c] = "done" => result[c].value = <<>>)
  /\ [][\A c \in Calls :
          (InBody(c) /\ pc'[c] # pc[c]) =>
             /\ accounts' = accounts
             /\ Len(log') = Len(log) + (IF pc[c] = "body" THEN 1 ELSE 0)
             /\ SubSeq(log', 1, Len(log)) = log]_vars

C2_Witness ==
  \E c \in Calls :
    /\ pc[c] = "done" /\ target[c] = "points"
    /\ Cardinality(RecordsOf(log, c)) = 1
    /\ Len(log) = 2

\* C3: once N invocations of a unit have returned and none is in flight,
\* there are N successes and N log records of that unit, every one of them
\* has the outcome and the record of a first invocation, and account data
\* never changes.
C3_NoHistory ==
  /\ [](\A u \in Units :
          (\A c \in CallsTo(u) : pc[c] = "done") =>
             /\ \A c \in CallsTo(u) :
                  /\ result[c] = [tag |-> "Ok", value |-> <<>>]
                  /\ Cardinality(RecordsOf(log, c)) = 1
             /\ \A i, j \in DOMAIN log :
                  (target[log[i].call] = u /\ target[log[j].call] = u)
                     => log[i].text = log[j].text)
  /\ [][accounts' = accounts]_vars

C3_Witness ==
  /\ \A c \in Calls : pc[c] = "done" /\ target[c] = "escrow"
  /\ Len(log) = MaxCalls

\* C4: in every interleaving an invocation that is in the body can take its
\* next step whatever the other invocations are doing, and the log holds the
\* same records, as a multiset, as running the invocations that have logged
\* one after the other; every returned invocation succeeded.
C4_Independent ==
  /\ \A c \in Calls :
       /\ pc[c] = "body" => ENABLED Msg(c)
       /\ pc[c] = "logged" => ENABLED Return(c)
       /\ pc[c] = "done" => result[c].tag = "Ok"
  /\ BagOf(log) =
       BagOf(SeqLog({c \in Calls : pc[c] \in {"logged", "done"}},
                    [c \in Calls |-> Message(target[c])]))

C4_Witness ==
  /\ Len(log) = 2
  /\ log[1].call = 2 /\ log[2].call = 1
  /\ pc[1] = "done" /\ pc[2] = "logged"
  /\ target[1] = "points" /\ target[2] = "quests"

\* C5: the four declared identifiers are present and pairwise distinct, so an
\* invocation addressed to one unit's identifier never runs another unit.
C5_DistinctIds ==
  /\ \A u \in Units : Len(ID[u]) > 0
  /\ \A u, v \in Units : u # v => ID[u] # ID[v]
  /\ \A c \in Calls : \A u \in Units :
       (pc[c] # "idle" /\ addr[c] = ID[u] /\ target[c] \in Units) => target[c] = u

C5_Witness ==
  \E c \in Calls : pc[c] = "body" /\ addr[c] = ID["quests"] /\ target[c] = "quests"

\* C6: every record a unit logs contains that unit's subsystem name and the
\* word "stub"; two records are equal exactly when the same unit logged them.
C6_FixedMessage ==
  \A i \in DOMAIN log :
    LET u == target[log[i].call]
    IN  /\ Contains(log[i].text, Name[u], 1)
        /\ Contains(log[i].text, Stub, 1)
        /\ \A j \in DOMAIN log :
             (target[log[j].call] = u) <=> (log[j].text = log[i].text)

C6_Witness ==
  /\ Len(log) = 3
  /\ target[log[1].call] = "escrow"
  /\ target[log[2].call] = "quests"
  /\ target[log[3].call] = "escrow"

\* C7: a unit's program identifier is shared with no other program the
\* runtime can route to, its built-in programs included, so an invocation
\* addressed to that identifier reaches this unit's code and no other.
C7_GloballyUnique ==
  \A c \in Calls : \A u \in Units :
    (pc[c] # "idle" /\ addr[c] = ID[u]) =>
       /\ target[c] = u
       /\ \A p \in Programs \ {u} : ProgramId(p) # addr[c]

\* C8: a step of one unit's initialize starts no other invocation, leaves
\* every other invocation as it was, and appends no record that names
\* another unit.
C8_NoCrossUnit ==
  [][\A c \in Calls :
       (InBody(c) /\ pc'[c] # pc[c]) =>
          /\ \A d \in Calls \ {c} :
               /\ pc'[d] = pc[d]
               /\ target'[d] = target[d]
               /\ addr'[d] = addr[d]
               /\ result'[d] = result[d]
          /\ \A i \in DOMAIN log' :
               \/ i \in DOMAIN log /\ log'[i] = log[i]
               \/ /\ log'[i].call = c
                  /\ \A v \in Units \ {target[c]} :
                       ~Contains(log'[i].text, Name[v], 1)]_vars

C8_Witness ==
  \E c, d, e \in Calls :
    /\ pc[c] = "done" /\ target[c] = "escrow"
    /\ pc[d] = "body" /\ target[d] = "registry"
    /\ pc[e] = "idle"
    /\ Len(log) = 1

\* C9: every declared identifier decodes, as base58, to exactly 32 bytes.
C9_ValidAddress ==
  /\ status \notin {"InvalidCharacter", "WrongSize"}
  /\ status = "Ok" => Len(out) = 32

\* C10: every declared identifier is 32 characters long, all of them the same
\* digit: '1' for points, '2' for quests, '3' for escrow, '4' for registry.
C10_RepeatedDigit ==
  status # "idle" =>
    /\ Len(token) = 32
    /\ \A i \in 1..Len(token) : token[i] = Digit[unit]

C10_Witness ==
  status = "decoding" /\ unit = "escrow" /\ pos = Len(token) /\ pos = 32

====
